---- MODULE Spec2Model ----
(***************************************************************************)
(* neopixel_color_finder (src/code.py): three knobs set an RGB value that  *)
(* is shown on a TFT and a 7-pixel NeoPixel jewel; four debounced buttons  *)
(* save the value into four memory slots.  The program is one thread: a    *)
(* startup animation (lines 184-207), the construction of the screen and   *)
(* of the loop's globals (213-296), and the endless main loop (300-425).   *)
(*                                                                         *)
(* Time is counted in units of 10 ms, the length of the main loop's sleep, *)
(* so 0.75 s is 75 units.  A colour is a triple <<r, g, b>>.  Arithmetic   *)
(* that the program does in floating point is done here exactly, on        *)
(* numerators over a common denominator.                                   *)
(***************************************************************************)
EXTENDS Integers, Sequences, FiniteSets

VARIABLES
    pc,                 \* "startup" (187-200), "blank" (203-296), "main" (300-425),
                        \* "knob" and "sampled" (before and after 360-362)
    now,                \* the value of the last reading of time.monotonic()
    j,                  \* the frame of the startup animation (line 187)
    R_knob_last, G_knob_last, B_knob_last,
    R_knob, G_knob, B_knob,
    neopixels,          \* the pixel buffer, index 0..6
    shown,              \* what the last neopixels.show() presented
    splash,             \* the display group, a sequence of element names
    big_circle_fill,
    circle_mem_fill,    \* circle_mem_k.fill, k in 1..4
    circle_mem_outline, \* circle_mem_k.outline
    disp_text,          \* text of the r, g, b and h labels
    text_group_x,       \* x of the r, g, b and h text groups
    fastloop_counter,
    mode,
    mem_rgb,            \* memK_rgb
    keep_this_rgb,
    rgb_value_i,
    btn_start_time,     \* btnK_start_time
    btn_status,         \* btnK_status
    unstable,           \* Debouncer k: the level of the pin at the last update
    debounced,          \* Debouncer k: the debounced level (TRUE is high, released)
    changed,            \* Debouncer k: the debounced level changed in the last update
    slow_tick,          \* history: the last loop iteration ran the slow bookkeeping
    consumed,           \* history: the classification the last iteration consumed, per button
    latched,            \* history: per button, classifications latched so far
    acted,              \* history: per button, classifications consumed so far
    lost,               \* history: per button, the last classification overwritten unconsumed
    edges,              \* history: per button, changes of pin level so far
    pixel_ops,          \* the pixel writes and show calls of the last rendering tick
    analog_pins,        \* the raw readings of the R, G, B pins at the last sampling
    iteration,          \* history: iterations of the main loop so far
    latch_age,          \* history: per button, iterations since the latch that is
                        \* pending, or was consumed by the last iteration, was set
    prior_rgb           \* history: the knob triple before the last slow tick sampled

vars == <<pc, now, j, R_knob_last, G_knob_last, B_knob_last, R_knob, G_knob, B_knob,
          neopixels, shown, splash, big_circle_fill, circle_mem_fill,
          circle_mem_outline, disp_text, text_group_x, fastloop_counter, mode,
          mem_rgb, keep_this_rgb, rgb_value_i, btn_start_time, btn_status,
          unstable, debounced, changed, slow_tick, consumed, latched, acted, lost,
          edges, pixel_ops, analog_pins, iteration, latch_age, prior_rgb>>

startup_vars == <<j, R_knob_last, G_knob_last, B_knob_last>>

screen_vars == <<splash, big_circle_fill, circle_mem_fill, circle_mem_outline,
                 disp_text, text_group_x>>

loop_vars == <<fastloop_counter, mode, mem_rgb, keep_this_rgb, rgb_value_i,
               btn_start_time, btn_status, unstable, debounced, changed,
               slow_tick, consumed, latched, acted, lost, edges, iteration,
               latch_age, prior_rgb>>

----------------------------------------------------------------------------
(* Program constants.                                                      *)

NUMPIXELS == 7

NumFrames == 5000

MotionThreshold == 5

IN_MIN == 1000

IN_MAX == 64000

OUT_MAX == 255

num_readings == 8

FrameSleep == 5

LoopSleep == 1

DebounceInterval == 1

LongPress == 75

SlowPeriod == 24

GlyphWidth == 6

D_BLACK == 0

D_WHITE == 16777215

D_YELLOW == 16776960

Buttons == 1 .. 4

Pixels == 0 .. (NUMPIXELS - 1)

\* the pixel that echoes slot k (lines 382, 388, 394, 400)
SlotPixel == <<6, 5, 2, 3>>

\* the pixels that show the knob value (lines 372-374)
LivePixels == {0, 1, 4}

BLACK == <<0, 0, 0>>

AllBlack == [i \in Pixels |-> BLACK]

----------------------------------------------------------------------------
(* Bounds of the model and the inputs it draws.                            *)

\* the clock stops the exploration when it reaches MaxTime
MaxTime == 227

\* Spec: changes of pin level the buttons make in one run
MaxEdges == 4

\* Spec: buttons that are touched in one run
MaxMoved == 2

\* Spec: the buttons move only in the last PressWindow iterations before the
\* slow bookkeeping, the one that runs it included
PressWindow == 3

\* LatchSpec: the same three bounds, for runs in which one button is
\* pressed and released several times between two slow ticks
LatchEdges == 4

LatchMoved == 1

LatchWindow == 6

\* what a loop iteration takes: the sleep of line 352 when it only polls the
\* buttons; the sleep and half a second of sampling and drawing when it ran
\* the slow bookkeeping
FastDelays == {LoopSleep}

SlowDelays == {LoopSleep + 50}

Const8(x) == [i \in 1 .. num_readings |-> x]

\* the raw readings of the R, G and B pins one sampling of the main loop
\* can see: they map to (255, 0, 0) and (125, 125, 125)
KnobSamples ==
    { <<Const8(65535), Const8(0), Const8(1000)>>,
      <<<<31000, 33000, 32000, 32000, 30000, 34000, 32000, 32000>>,
        Const8(32000), Const8(32000)>> }

\* the raw readings of the R, G and B pins one sampling of the startup
\* animation can see: 25706, 26942 and 27436 map to 100, 105 and 107
StartupSamples ==
    { <<Const8(25706), Const8(25706), Const8(25706)>>,
      <<Const8(26942), Const8(25706), Const8(25706)>>,
      <<Const8(27436), Const8(25706), Const8(25706)>>,
      <<Const8(25706), Const8(27436), Const8(25706)>>,
      <<Const8(25706), Const8(25706), Const8(27436)>> }

----------------------------------------------------------------------------
(* Pure functions.                                                         *)

Abs(x) == IF x < 0 THEN 0 - x ELSE x

Min(a, b) == IF a < b THEN a ELSE b

Max(a, b) == IF a > b THEN a ELSE b

\* map_range without the clamp to [out_min, out_max]
map_range_unclamped(x, in_min, in_max, out_min, out_max) ==
    (x - in_min) * (out_max - out_min) + out_min * (in_max - in_min)

\* simpleio.map_range(x, in_min, in_max, out_min, out_max) for in_min < in_max
\* and out_min <= out_max, times (in_max - in_min): the linear map, clamped
\* to [out_min, out_max]
map_range(x, in_min, in_max, out_min, out_max) ==
    LET in_range == in_max - in_min
        mapped   == (x - in_min) * (out_max - out_min) + out_min * in_range
    IN  Max(Min(mapped, out_max * in_range), out_min * in_range)

RECURSIVE SumSeq(_)
SumSeq(s) == IF s = <<>> THEN 0 ELSE Head(s) + SumSeq(Tail(s))

\* get_knob with the mean rounded up
get_knob_ceiling(readings) ==
    LET avg == SumSeq([i \in 1 .. Len(readings) |->
                          map_range(readings[i], IN_MIN, IN_MAX, 0, OUT_MAX)])
        den == (IN_MAX - IN_MIN) * num_readings
    IN  (avg + den - 1) \div den

\* get_knob (lines 118-125): the mean of the mapped readings, truncated
get_knob(readings) ==
    LET avg == SumSeq([i \in 1 .. Len(readings) |->
                          map_range(readings[i], IN_MIN, IN_MAX, 0, OUT_MAX)])
    IN  avg \div ((IN_MAX - IN_MIN) * num_readings)

\* wheel (lines 127-138)
wheel(pos) ==
    IF pos < 0 \/ pos > 255 THEN <<0, 0, 0>>
    ELSE IF pos < 85 THEN <<255 - pos * 3, pos * 3, 0>>
    ELSE IF pos < 170 THEN <<0, 255 - (pos - 85) * 3, (pos - 85) * 3>>
    ELSE <<(pos - 170) * 3, 0, 255 - (pos - 170) * 3>>

\* bitwise or of two naturals
RECURSIVE BitOr(_, _)
BitOr(a, b) ==
    IF a = 0 THEN b
    ELSE IF b = 0 THEN a
    ELSE (IF a % 2 = 1 \/ b % 2 = 1 THEN 1 ELSE 0) + 2 * BitOr(a \div 2, b \div 2)

\* (R_knob << 16) | (G_knob << 8) | B_knob (line 365)
PackRGB(r, g, b) == BitOr(BitOr(r * 65536, g * 256), b)

DecDigit == <<"0", "1", "2", "3", "4", "5", "6", "7", "8", "9">>

HexDigit == DecDigit \o <<"a", "b", "c", "d", "e", "f">>

\* str(n) for n >= 0, as the sequence of its characters
RECURSIVE str(_)
str(n) == IF n < 10 THEN <<DecDigit[n + 1]>>
          ELSE str(n \div 10) \o <<DecDigit[(n % 10) + 1]>>

RECURSIVE HexDigits(_)
HexDigits(n) == IF n < 16 THEN <<HexDigit[n + 1]>>
                ELSE HexDigits(n \div 16) \o <<HexDigit[(n % 16) + 1]>>

\* hex(n) for n >= 0
hex(n) == <<"0", "x">> \o HexDigits(n)

\* the x a display_val_* call gives its text group (lines 83-86):
\* int(2 * (center - textwidth / 2)), the label being GlyphWidth per glyph
centered_x(text, center) ==
    LET textwidth == GlyphWidth * Len(text)
        twice     == 2 * (2 * center - textwidth)
    IN  IF twice >= 0 THEN twice \div 2 ELSE 0 - ((0 - twice) \div 2)

\* the centre each display_val_* uses (lines 85, 92, 99, 106)
TextCenter == [r |-> 15, g |-> 40, b |-> 65, h |-> 40]

\* the x each text group is built with (lines 226, 231, 236, 241)
TextGroupX0 == [r |-> 5, g |-> 55, b |-> 105, h |-> 0]

\* display_vals with the hex field packed blue first
display_vals_bgr(r, g, b) ==
    [r |-> str(r), g |-> str(g), b |-> str(b), h |-> hex(PackRGB(b, g, r))]

\* display_val_r, _g, _b, _h applied to the sampled knobs (lines 367-370)
display_vals(r, g, b) ==
    [r |-> str(r), g |-> str(g), b |-> str(b), h |-> hex(PackRGB(r, g, b))]

display_xs(texts) ==
    [f \in {"r", "g", "b", "h"} |-> centered_x(texts[f], TextCenter[f])]

----------------------------------------------------------------------------
(* The screen and the loop's globals as lines 213-296 build them.          *)

\* the elements appended to the display group, in order (lines 214-244)
ScreenElements ==
    <<"big_circle", "circle_mem_1", "circle_mem_2", "circle_mem_3", "circle_mem_4",
      "text_group_r", "text_group_g", "text_group_b", "text_group_h">>

EmptyTexts == [f \in {"r", "g", "b", "h"} |-> <<>>]

\* the pin levels the four Debouncers can find when they are built
\* (lines 256-277): a pin is high unless its button is held down
PinLevels == { lv \in [Buttons -> BOOLEAN] :
                  Cardinality({k \in Buttons : ~lv[k]}) <= 1 }

\* a button held down when its Debouncer is built has been pressed once
held_edges(lv) == [k \in Buttons |-> IF lv[k] THEN 0 ELSE 1]

\* the pin changes e are within the bounds of the model
WithinBounds(e, maxEdges, maxMoved) ==
    /\ e[1] + e[2] + e[3] + e[4] <= maxEdges
    /\ Cardinality({k \in Buttons : e[k] > 0}) <= maxMoved

----------------------------------------------------------------------------
(* The calls a rendering tick makes on the pixel array, in program order.  *)

write_op(i) == [op |-> "write", i |-> i]

show_op == [op |-> "show", i |-> -1]

\* lines 188-191: a frame writes every pixel, then shows
RECURSIVE frame_ops(_)
frame_ops(n) == IF n = 0 THEN <<show_op>> ELSE <<write_op(NUMPIXELS - n)>> \o frame_ops(n - 1)

\* lines 203-205: the blanking writes a pixel and shows, pixel after pixel
RECURSIVE blank_ops(_)
blank_ops(n) ==
    IF n = 0 THEN <<>>
    ELSE <<write_op(NUMPIXELS - n), show_op>> \o blank_ops(n - 1)

\* lines 382, 388, 394, 400: the writes of the slots saved, buttons n..4
RECURSIVE save_ops(_, _)
save_ops(status, n) ==
    IF n > 4 THEN <<>>
    ELSE (IF status[n] = "long" THEN <<write_op(SlotPixel[n])>> ELSE <<>>)
         \o save_ops(status, n + 1)

\* lines 372-400: the live pixels are written and shown, then the slots saved
slow_tick_ops(status) ==
    <<write_op(0), write_op(1), write_op(4), show_op>> \o save_ops(status, 1)

----------------------------------------------------------------------------
(* The startup animation (lines 184-200).                                  *)

\* knob_moved with a change of the threshold itself counted as motion
knob_moved_inclusive(r, g, b, r_last, g_last, b_last) ==
    \/ Abs(r - r_last) >= MotionThreshold
    \/ Abs(g - g_last) >= MotionThreshold
    \/ Abs(b - b_last) >= MotionThreshold

\* the test of line 196
knob_moved(r, g, b, r_last, g_last, b_last) ==
    \/ Abs(r - r_last) > MotionThreshold
    \/ Abs(g - g_last) > MotionThreshold
    \/ Abs(b - b_last) > MotionThreshold

\* the pixels of frame f (lines 188-190)
frame_pixels(f) ==
    [i \in Pixels |-> wheel((((i * 256) \div NUMPIXELS) + f * 10) % 256)]

\* the for loop of line 187 runs frame f and then another one
more_frames(f) == f + 1 < NumFrames

StartupInit ==
    /\ pc = "startup"
    /\ now = 0
    /\ j = 0
    /\ \E pins \in StartupSamples :
          /\ analog_pins = pins
          /\ R_knob_last = get_knob(pins[1])
          /\ G_knob_last = get_knob(pins[2])
          /\ B_knob_last = get_knob(pins[3])
    /\ R_knob = R_knob_last
    /\ G_knob = G_knob_last
    /\ B_knob = B_knob_last
    /\ neopixels = AllBlack
    /\ shown = AllBlack
    /\ splash = <<"face">>
    /\ big_circle_fill = D_BLACK
    /\ circle_mem_fill = [k \in Buttons |-> D_BLACK]
    /\ circle_mem_outline = [k \in Buttons |-> D_WHITE]
    /\ disp_text = EmptyTexts
    /\ text_group_x = TextGroupX0
    /\ fastloop_counter = 0
    /\ mode = "show_knob_value"
    /\ mem_rgb = [k \in Buttons |-> BLACK]
    /\ keep_this_rgb = 0
    /\ rgb_value_i = 0
    /\ btn_start_time = [k \in Buttons |-> 0]
    /\ btn_status = [k \in Buttons |-> "waiting"]
    /\ unstable = [k \in Buttons |-> TRUE]
    /\ debounced = [k \in Buttons |-> TRUE]
    /\ changed = [k \in Buttons |-> FALSE]
    /\ slow_tick = FALSE
    /\ consumed = [k \in Buttons |-> "none"]
    /\ latched = [k \in Buttons |-> 0]
    /\ acted = [k \in Buttons |-> 0]
    /\ lost = [k \in Buttons |-> "none"]
    /\ edges = [k \in Buttons |-> 0]
    /\ pixel_ops = <<>>
    /\ iteration = 0
    /\ latch_age = [k \in Buttons |-> 0]
    /\ prior_rgb = BLACK

\* one frame of the animation: lines 188-200
AnimationFrame ==
    /\ pc = "startup"
    /\ neopixels' = frame_pixels(j)
    /\ shown' = frame_pixels(j)
    /\ pixel_ops' = frame_ops(NUMPIXELS)
    /\ now' = now + FrameSleep
    /\ \E pins \in StartupSamples :
          LET r == get_knob(pins[1])
              g == get_knob(pins[2])
              b == get_knob(pins[3])
          IN  /\ analog_pins' = pins
              /\ R_knob' = r
              /\ G_knob' = g
              /\ B_knob' = b
              /\ IF knob_moved(r, g, b, R_knob_last, G_knob_last, B_knob_last)
                 THEN /\ pc' = "blank"
                      /\ UNCHANGED startup_vars
                 ELSE /\ R_knob_last' = r
                      /\ G_knob_last' = g
                      /\ B_knob_last' = b
                      /\ IF more_frames(j)
                         THEN j' = j + 1 /\ pc' = "startup"
                         ELSE j' = j /\ pc' = "blank"
    /\ UNCHANGED <<screen_vars, loop_vars>>

\* the pixel buffer after the loop of lines 203-205 has run on buffer buf
RECURSIVE blanked(_, _)
blanked(buf, n) ==
    IF n = 0 THEN buf
    ELSE [blanked(buf, n - 1) EXCEPT ![n - 1] = <<0, 0, 0>>]

\* popped with the group left as it is
popped_none(group) == group

\* the display group after splash.pop() (line 207)
popped(group) == SubSeq(group, 1, Len(group) - 1)

\* lines 203-296: the pixels are blanked and shown, the splash image is
\* removed, the screen is built and the loop's globals are set
ExitStartup ==
    /\ pc = "blank"
    /\ pc' = "main"
    /\ neopixels' = blanked(neopixels, NUMPIXELS)
    /\ shown' = blanked(neopixels, NUMPIXELS)
    /\ pixel_ops' = blank_ops(NUMPIXELS)
    /\ splash' = popped(splash) \o ScreenElements
    /\ big_circle_fill' = D_BLACK
    /\ circle_mem_fill' = [k \in Buttons |-> D_BLACK]
    /\ circle_mem_outline' = [k \in Buttons |-> D_WHITE]
    /\ disp_text' = EmptyTexts
    /\ text_group_x' = TextGroupX0
    /\ fastloop_counter' = 0
    /\ mode' = "show_knob_value"
    /\ mem_rgb' = [k \in Buttons |-> BLACK]
    /\ keep_this_rgb' = 0
    /\ rgb_value_i' = 0
    /\ btn_start_time' = [k \in Buttons |-> 0]
    /\ btn_status' = [k \in Buttons |-> "waiting"]
    /\ \E lv \in PinLevels :
          /\ unstable' = lv
          /\ debounced' = lv
          /\ edges' = held_edges(lv)
    /\ changed' = [k \in Buttons |-> FALSE]
    /\ slow_tick' = FALSE
    /\ consumed' = [k \in Buttons |-> "none"]
    /\ latched' = [k \in Buttons |-> 0]
    /\ acted' = [k \in Buttons |-> 0]
    /\ lost' = [k \in Buttons |-> "none"]
    /\ iteration' = 0
    /\ latch_age' = [k \in Buttons |-> 0]
    /\ prior_rgb' = <<R_knob, G_knob, B_knob>>
    /\ UNCHANGED <<now, startup_vars, R_knob, G_knob, B_knob, analog_pins>>

StartupNext == AnimationFrame \/ ExitStartup

\* the program from line 184 to the entry of the main loop
StartupSpec == StartupInit /\ [][StartupNext]_vars

----------------------------------------------------------------------------
(* The main loop (lines 300-425).                                          *)

\* the frame at which the animation ended in the runs of the main loop
EndFrame == 14

\* the state the main loop starts in when the animation ended at frame
\* EndFrame, knob R having moved from 100 to 107
Init ==
    /\ pc = "main"
    /\ now = (EndFrame + 1) * FrameSleep
    /\ j = EndFrame
    /\ R_knob_last = 100 /\ G_knob_last = 100 /\ B_knob_last = 100
    /\ R_knob = 107 /\ G_knob = 100 /\ B_knob = 100
    /\ neopixels = AllBlack
    /\ shown = AllBlack
    /\ splash = ScreenElements
    /\ big_circle_fill = D_BLACK
    /\ circle_mem_fill = [k \in Buttons |-> D_BLACK]
    /\ circle_mem_outline = [k \in Buttons |-> D_WHITE]
    /\ disp_text = EmptyTexts
    /\ text_group_x = TextGroupX0
    /\ fastloop_counter = 0
    /\ mode = "show_knob_value"
    /\ mem_rgb = [k \in Buttons |-> BLACK]
    /\ keep_this_rgb = 0
    /\ rgb_value_i = 0
    /\ btn_start_time = [k \in Buttons |-> 0]
    /\ btn_status = [k \in Buttons |-> "waiting"]
    /\ \E lv \in PinLevels :
          /\ unstable = lv
          /\ debounced = lv
          /\ edges = held_edges(lv)
    /\ changed = [k \in Buttons |-> FALSE]
    /\ slow_tick = FALSE
    /\ consumed = [k \in Buttons |-> "none"]
    /\ latched = [k \in Buttons |-> 0]
    /\ acted = [k \in Buttons |-> 0]
    /\ lost = [k \in Buttons |-> "none"]
    /\ pixel_ops = blank_ops(NUMPIXELS)
    /\ analog_pins = <<Const8(27436), Const8(25706), Const8(25706)>>
    /\ iteration = 0
    /\ latch_age = [k \in Buttons |-> 0]
    /\ prior_rgb = <<107, 100, 100>>

\* Debouncer.update() of button k (lines 302-305) when the pin reads level,
\* elapsed after the previous update: a level that differs from the last
\* reading is only noted; one that repeats it, the debounce interval having
\* passed, becomes the debounced level
debouncer_update(k, level, elapsed) ==
    IF level # unstable[k]
    THEN [unstable |-> level, debounced |-> debounced[k], changed |-> FALSE]
    ELSE IF elapsed >= DebounceInterval /\ level # debounced[k]
    THEN [unstable |-> level, debounced |-> level, changed |-> TRUE]
    ELSE [unstable |-> level, debounced |-> debounced[k], changed |-> FALSE]

\* Debouncer.fell and Debouncer.rose of a debouncer in state deb
fell(deb) == deb.changed /\ ~deb.debounced

rose(deb) == deb.changed /\ deb.debounced

\* classify with the threshold itself counted as short
classify_inclusive(downtime) == IF downtime <= LongPress THEN "short" ELSE "long"

\* lines 323-326: the classification of a press that lasted downtime
classify(downtime) == IF downtime < LongPress THEN "short" ELSE "long"

\* status_after_fast with the press latched short as soon as the button falls
status_after_fast_on_press(k, deb, t) ==
    IF fell(deb) THEN "short"
    ELSE IF rose(deb) THEN classify(t - btn_start_time[k])
    ELSE btn_status[k]

\* status_after_fast with a latch that keeps a classification not yet consumed
status_after_fast_sticky(k, deb, t) ==
    IF rose(deb) /\ btn_status[k] = "waiting"
    THEN classify(t - btn_start_time[k]) ELSE btn_status[k]

\* lines 307-350 for button k, its debouncer now in state deb, at time t
start_time_after(k, deb, t) == IF fell(deb) THEN t ELSE btn_start_time[k]

outline_after(k, deb) ==
    IF rose(deb) THEN D_WHITE
    ELSE IF fell(deb) THEN D_YELLOW
    ELSE circle_mem_outline[k]

status_after_fast(k, deb, t) ==
    IF rose(deb) THEN classify(t - btn_start_time[k]) ELSE btn_status[k]

\* slow_due with the test of line 356 made inclusive
slow_due_inclusive(c) == c >= SlowPeriod

\* line 356: the slow bookkeeping runs when the counter, incremented, is c
slow_due(c) == c > SlowPeriod

\* lines 379, 385, 391, 397: slot k is saved in this slow tick
save_due(status, k) == status[k] = "long"

\* mem_after_slow storing the triple sampled by the previous slow tick
mem_after_slow_stale(status, rgb) ==
    [k \in Buttons |->
        IF save_due(status, k) THEN <<R_knob, G_knob, B_knob>> ELSE mem_rgb[k]]

\* mem_after_slow saving only the first slot whose latch is long
mem_after_slow_first(status, rgb) ==
    [k \in Buttons |->
        IF save_due(status, k) /\ \A q \in 1 .. (k - 1) : ~save_due(status, q)
        THEN rgb ELSE mem_rgb[k]]

\* lines 380, 386, 392, 398
mem_after_slow(status, rgb) ==
    [k \in Buttons |-> IF save_due(status, k) THEN rgb ELSE mem_rgb[k]]

\* fill_after_slow filling every indicator when any slot is saved
fill_after_slow_all(status, packed) ==
    [k \in Buttons |->
        IF \E q \in Buttons : save_due(status, q) THEN packed
        ELSE circle_mem_fill[k]]

\* lines 381, 387, 393, 399
fill_after_slow(status, packed) ==
    [k \in Buttons |-> IF save_due(status, k) THEN packed ELSE circle_mem_fill[k]]

\* live_written writing the knob value to every pixel
live_written_all(buf, rgb) == [i \in Pixels |-> rgb]

\* lines 372-374: the buffer after the writes of the live pixels
live_written(buf, rgb) ==
    [i \in Pixels |-> IF i \in LivePixels THEN rgb ELSE buf[i]]

\* lines 382, 388, 394, 400: the buffer after the writes of the saved slots
slots_written(buf, status, rgb) ==
    [i \in Pixels |->
        IF \E k \in Buttons : save_due(status, k) /\ SlotPixel[k] = i
        THEN rgb ELSE buf[i]]

\* status_after_slow with the long classifications left in the latch
status_after_slow_keep_long(status) ==
    [k \in Buttons |-> IF status[k] = "short" THEN "waiting" ELSE status[k]]

\* status_after_slow with the short classifications left in the latch
status_after_slow_keep_short(status) ==
    [k \in Buttons |-> IF status[k] = "long" THEN "waiting" ELSE status[k]]

\* lines 383, 389, 395, 401 and 404-422: the latches after the slow tick
status_after_slow(status) ==
    [k \in Buttons |->
        IF status[k] = "long" THEN "waiting"
        ELSE IF status[k] = "short" THEN "waiting"
        ELSE status[k]]

\* mode_after_short with the recall of the module docstring
mode_after_short_recall(status) ==
    IF \E k \in Buttons : status[k] = "short" THEN "showing_stored_value" ELSE mode

\* lines 404-422: what a short press makes of the mode
mode_after_short(status) == mode

\* the time between the clock readings of two iterations; slow tells that
\* the earlier one ran the slow bookkeeping
Delays(slow) == IF slow THEN SlowDelays ELSE FastDelays

\* the count of pin changes when the pins read lv
edges_after(lv) ==
    [k \in Buttons |-> IF lv[k] # unstable[k] THEN edges[k] + 1 ELSE edges[k]]

\* the levels the pins can read when the counter is c
PinInputs(c, window, maxEdges, maxMoved) ==
    IF c + window > SlowPeriod
    THEN { lv \in [Buttons -> BOOLEAN] :
              WithinBounds(edges_after(lv), maxEdges, maxMoved) }
    ELSE {unstable}

\* lines 360-422, the slow bookkeeping in mode show_knob_value: the knobs
\* are sampled as r, g, b and status holds the latches
SlowBookkeeping(status, r, g, b) ==
    LET rgb    == <<r, g, b>>
        packed == PackRGB(r, g, b)
    IN  /\ R_knob' = r
        /\ G_knob' = g
        /\ B_knob' = b
        /\ rgb_value_i' = packed
        /\ keep_this_rgb' = rgb
        /\ disp_text' = display_vals(r, g, b)
        /\ text_group_x' = display_xs(display_vals(r, g, b))
        /\ shown' = live_written(neopixels, rgb)
        /\ pixel_ops' = slow_tick_ops(status)
        /\ big_circle_fill' = packed
        /\ mem_rgb' = mem_after_slow(status, rgb)
        /\ circle_mem_fill' = fill_after_slow(status, packed)
        /\ neopixels' = slots_written(live_written(neopixels, rgb), status, rgb)
        /\ btn_status' = status_after_slow(status)
        /\ mode' = mode_after_short(status)
        /\ consumed' = [k \in Buttons |->
              IF status[k] \in {"long", "short"} THEN status[k] ELSE "none"]
        /\ acted' = [k \in Buttons |->
              IF status[k] \in {"long", "short"} THEN acted[k] + 1 ELSE acted[k]]

\* one iteration of the while loop, lines 302-425: it starts d after the
\* previous one, the pins read levels, and the knob pins read pins if the
\* slow bookkeeping runs
LoopIteration(window, maxEdges, maxMoved) ==
    /\ pc = "main"
    /\ \E d \in Delays(slow_tick),
          levels \in PinInputs(fastloop_counter, window, maxEdges, maxMoved) :
        LET t      == now + d
            deb    == [k \in Buttons |-> debouncer_update(k, levels[k], d)]
            status == [k \in Buttons |-> status_after_fast(k, deb[k], t)]
            c      == fastloop_counter + 1
        IN  /\ t <= MaxTime
            /\ now' = t
            /\ edges' = edges_after(levels)
            /\ unstable' = [k \in Buttons |-> deb[k].unstable]
            /\ debounced' = [k \in Buttons |-> deb[k].debounced]
            /\ changed' = [k \in Buttons |-> deb[k].changed]
            /\ btn_start_time' = [k \in Buttons |-> start_time_after(k, deb[k], t)]
            /\ circle_mem_outline' = [k \in Buttons |-> outline_after(k, deb[k])]
            /\ latched' = [k \in Buttons |->
                              IF rose(deb[k]) THEN latched[k] + 1 ELSE latched[k]]
            /\ lost' = [k \in Buttons |->
                           IF rose(deb[k]) /\ btn_status[k] # "waiting"
                           THEN btn_status[k] ELSE lost[k]]
            /\ slow_tick' = slow_due(c)
            /\ iteration' = iteration + 1
            /\ IF ~slow_due(c)
               THEN /\ fastloop_counter' = c
                    /\ btn_status' = status
                    /\ consumed' = [k \in Buttons |-> "none"]
                    /\ pixel_ops' = <<>>
                    /\ UNCHANGED <<R_knob, G_knob, B_knob, neopixels, shown,
                                   big_circle_fill, circle_mem_fill, disp_text,
                                   text_group_x, mode, mem_rgb, keep_this_rgb,
                                   rgb_value_i, acted, analog_pins, prior_rgb>>
               ELSE /\ fastloop_counter' = 0
                    /\ prior_rgb' = <<R_knob, G_knob, B_knob>>
                    /\ IF mode = "show_knob_value"
                       THEN \E pins \in KnobSamples :
                               /\ analog_pins' = pins
                               /\ SlowBookkeeping(status, get_knob(pins[1]),
                                                  get_knob(pins[2]), get_knob(pins[3]))
                       ELSE /\ \E pins \in KnobSamples :
                                  /\ analog_pins' = pins
                                  /\ R_knob' = get_knob(pins[1])
                                  /\ G_knob' = get_knob(pins[2])
                                  /\ B_knob' = get_knob(pins[3])
                            /\ btn_status' = status
                            /\ consumed' = [k \in Buttons |-> "none"]
                            /\ pixel_ops' = <<>>
                            /\ UNCHANGED <<neopixels, shown, big_circle_fill,
                                           circle_mem_fill, disp_text, text_group_x,
                                           mode, mem_rgb, keep_this_rgb,
                                           rgb_value_i, acted>>
            /\ latch_age' = [k \in Buttons |->
                                IF rose(deb[k]) THEN 0
                                ELSE IF btn_status[k] # "waiting" THEN latch_age[k] + 1
                                ELSE 0]
    /\ UNCHANGED <<pc, startup_vars, splash>>

Next == LoopIteration(PressWindow, MaxEdges, MaxMoved)

\* the main loop
Spec == Init /\ [][Next]_vars

LatchNext == LoopIteration(LatchWindow, LatchEdges, LatchMoved)

\* the main loop entered with no button held down
LatchInit == Init /\ \A k \in Buttons : debounced[k]

\* the main loop, one button moving at any iteration near the slow tick
LatchSpec == LatchInit /\ [][LatchNext]_vars

----------------------------------------------------------------------------
(* The sampling of the knobs (lines 360-362) on its own.                   *)

\* the values a raw reading takes in the runs of the sampling: the ends of
\* the 16-bit range, the ends of the mapping window and values between
KnobValues == {0, 1000, 1248, 32000, 63999, 64000, 65535}

\* the readings one get_knob call can see: x for the first n, then y
KnobReadings ==
    { [i \in 1 .. num_readings |-> IF i <= n THEN x ELSE y] :
          x \in KnobValues, y \in KnobValues, n \in 0 .. num_readings }

\* the readings of the R, G and B pins
KnobPins ==
    { <<a, b, c>> : a \in KnobReadings, b \in KnobReadings,
                    c \in {Const8(0), Const8(65535)} }

\* the main loop about to sample the knobs, the pins holding any readings
KnobInit ==
    /\ pc = "knob"
    /\ analog_pins \in KnobPins
    /\ now = (EndFrame + 1) * FrameSleep + SlowPeriod + 1
    /\ j = EndFrame
    /\ R_knob_last = 100 /\ G_knob_last = 100 /\ B_knob_last = 100
    /\ R_knob = 107 /\ G_knob = 100 /\ B_knob = 100
    /\ neopixels = AllBlack
    /\ shown = AllBlack
    /\ splash = ScreenElements
    /\ big_circle_fill = D_BLACK
    /\ circle_mem_fill = [k \in Buttons |-> D_BLACK]
    /\ circle_mem_outline = [k \in Buttons |-> D_WHITE]
    /\ disp_text = EmptyTexts
    /\ text_group_x = TextGroupX0
    /\ fastloop_counter = 0
    /\ mode = "show_knob_value"
    /\ mem_rgb = [k \in Buttons |-> BLACK]
    /\ keep_this_rgb = 0
    /\ rgb_value_i = 0
    /\ btn_start_time = [k \in Buttons |-> 0]
    /\ btn_status = [k \in Buttons |-> "waiting"]
    /\ unstable = [k \in Buttons |-> TRUE]
    /\ debounced = [k \in Buttons |-> TRUE]
    /\ changed = [k \in Buttons |-> FALSE]
    /\ slow_tick = FALSE
    /\ consumed = [k \in Buttons |-> "none"]
    /\ latched = [k \in Buttons |-> 0]
    /\ acted = [k \in Buttons |-> 0]
    /\ lost = [k \in Buttons |-> "none"]
    /\ edges = [k \in Buttons |-> 0]
    /\ pixel_ops = <<>>
    /\ iteration = SlowPeriod
    /\ latch_age = [k \in Buttons |-> 0]
    /\ prior_rgb = <<107, 100, 100>>

\* lines 360-362: the three knobs are sampled
SampleKnobs ==
    /\ pc = "knob"
    /\ pc' = "sampled"
    /\ R_knob' = get_knob(analog_pins[1])
    /\ G_knob' = get_knob(analog_pins[2])
    /\ B_knob' = get_knob(analog_pins[3])
    /\ UNCHANGED <<now, startup_vars, neopixels, shown, screen_vars, loop_vars,
                   pixel_ops, analog_pins>>

KnobNext == SampleKnobs

KnobSpec == KnobInit /\ [][KnobNext]_vars

----------------------------------------------------------------------------
(* Properties.                                                             *)

\* the latch of button k as the fast part of the last iteration left it
Latched(k) == IF slow_tick THEN consumed[k] ELSE btn_status[k]

\* the last iteration saw button k released
Released(k) == pc = "main" /\ changed[k] /\ debounced[k]

\* C1: at the iteration that sees button k released, the classification
\* latched is short if and only if the time of that iteration minus the
\* time recorded when the button fell is below 0.75 s (75 units), and long
\* otherwise; exactly 0.75 s is long.
C1_ShortIffBelowThreshold ==
    \A k \in Buttons :
        Released(k) =>
            /\ (now - btn_start_time[k] < 75) => Latched(k) = "short"
            /\ (now - btn_start_time[k] >= 75) => Latched(k) = "long"

\* a press that was seen to begin and lasted exactly 0.75 s was latched long
C1_Witness ==
    \E k \in Buttons :
        /\ Released(k)
        /\ btn_start_time[k] > 0
        /\ now - btn_start_time[k] = 75
        /\ btn_status[k] = "long"

\* C2: a slow tick that finds the latch of button k long stores the triple
\* it sampled in slot k, sets indicator k's fill to the packed triple, writes
\* the triple to slot k's pixel and resets the latch to waiting.
C2_LongPressSaves ==
    \A k \in Buttons :
        (slow_tick /\ consumed[k] = "long") =>
            /\ R_knob \in 0 .. 255 /\ G_knob \in 0 .. 255 /\ B_knob \in 0 .. 255
            /\ mem_rgb[k] = <<R_knob, G_knob, B_knob>>
            /\ circle_mem_fill[k] = R_knob * 65536 + G_knob * 256 + B_knob
            /\ neopixels[SlotPixel[k]] = <<R_knob, G_knob, B_knob>>
            /\ btn_status[k] = "waiting"

\* button 3 was held long while the knobs read (255, 0, 0)
C2_Witness ==
    /\ slow_tick
    /\ consumed[3] = "long"
    /\ mem_rgb[3] = <<255, 0, 0>>
    /\ circle_mem_fill[3] = 16711680

\* C3: the four slots are black when the main loop starts, and the value,
\* the indicator fill and the pixel of slot k change only in an iteration
\* whose slow tick consumes a long classification of button k.
C3_SlotChangesOnlyOnOwnSave ==
    /\ \A k \in Buttons : mem_rgb[k] = <<0, 0, 0>>
    /\ [][\A k \in Buttons :
            (\/ mem_rgb'[k] # mem_rgb[k]
             \/ circle_mem_fill'[k] # circle_mem_fill[k]
             \/ neopixels'[SlotPixel[k]] # neopixels[SlotPixel[k]])
            => (slow_tick' /\ consumed'[k] = "long")]_vars

\* slot 2 was saved grey in a slow tick that left slot 1 red
C3_Witness ==
    /\ slow_tick
    /\ consumed[2] = "long"
    /\ consumed[1] = "none"
    /\ mem_rgb[2] = <<125, 125, 125>>
    /\ mem_rgb[1] = <<255, 0, 0>>
    /\ circle_mem_fill[1] = 16711680
    /\ neopixels[6] = <<255, 0, 0>>

\* C4: at the end of every slow tick the colour last presented on slot k's
\* pixel and the fill of indicator k both equal the value stored in slot k.
C4_EchoInSync ==
    \A k \in Buttons :
        slow_tick =>
            /\ shown[SlotPixel[k]] = mem_rgb[k]
            /\ circle_mem_fill[k] =
                   mem_rgb[k][1] * 65536 + mem_rgb[k][2] * 256 + mem_rgb[k][3]

\* C5: a short press of button k makes the program leave the live-knob mode
\* and show the value saved in slot k on all seven pixels.
C5_ShortPressRecalls ==
    \A k \in Buttons :
        (slow_tick /\ consumed[k] = "short") =>
            /\ mode # "show_knob_value"
            /\ \A i \in Pixels : neopixels[i] = mem_rgb[k]

C7_EveryCycleConsumed ==
    \A k \in Buttons :
        /\ lost[k] = "none"
        /\ slow_tick => acted[k] = latched[k]

\* C7 as amended: no classification is consumed twice or before it is
\* recorded; a pending latch is a recorded classification not yet consumed;
\* every slow tick leaves the latch waiting; and as long as no release has
\* overwritten a pending latch, every recorded classification is consumed
\* or pending.
C7_LatchConsumedOnce ==
    \A k \in Buttons :
        /\ acted[k] <= latched[k]
        /\ btn_status[k] # "waiting" => acted[k] < latched[k]
        /\ slow_tick => btn_status[k] = "waiting"
        /\ lost[k] = "none" =>
              latched[k] = acted[k] + (IF btn_status[k] = "waiting" THEN 0 ELSE 1)

\* two releases of one button were recorded between two slow ticks and the
\* slow tick consumed one classification
C7_Witness ==
    \E k \in Buttons :
        /\ slow_tick
        /\ latched[k] = 2
        /\ acted[k] = 1
        /\ lost[k] = "short"

\* C8: the latch of button k holds the classification of the most recent
\* release only: a release overwrites whatever the latch held, and the slow
\* tick acts on what the latch then holds, saving slot k only if that is
\* long.
C8_LatchHoldsLatest ==
    [][\A k \in Buttons :
          LET latest == IF changed'[k] /\ debounced'[k]
                        THEN (IF now' - btn_start_time[k] < 75
                              THEN "short" ELSE "long")
                        ELSE btn_status[k]
          IN  IF slow_tick'
              THEN /\ btn_status'[k] = "waiting"
                   /\ consumed'[k] = (IF latest = "waiting" THEN "none" ELSE latest)
                   /\ mem_rgb'[k] # mem_rgb[k] => latest = "long"
              ELSE /\ btn_status'[k] = latest
                   /\ mem_rgb'[k] = mem_rgb[k]]_vars

\* a long press and then a short press of one button came between two slow
\* ticks, and the slow tick saved nothing
C8_Witness ==
    \E k \in Buttons :
        /\ slow_tick
        /\ consumed[k] = "short"
        /\ lost[k] = "long"
        /\ latched[k] = 2
        /\ mem_rgb[k] = <<0, 0, 0>>
        /\ neopixels[SlotPixel[k]] = <<0, 0, 0>>

\* C9: the animation runs frames 0 to 4999 at most; a frame ends it exactly
\* when a knob's sample differs by more than 5 from its previous sample or
\* the frame is the last one; otherwise the sample becomes the previous
\* sample and the next frame runs.
C9_AnimationEnds ==
    /\ [](j \in 0 .. 4999)
    /\ [][pc = "startup" =>
            LET moved == \/ R_knob' - R_knob_last > 5 \/ R_knob_last - R_knob' > 5
                         \/ G_knob' - G_knob_last > 5 \/ G_knob_last - G_knob' > 5
                         \/ B_knob' - B_knob_last > 5 \/ B_knob_last - B_knob' > 5
            IN  /\ (pc' # "startup") <=> (moved \/ j = 4999)
                /\ pc' = "startup" =>
                      /\ j' = j + 1
                      /\ R_knob_last' = R_knob'
                      /\ G_knob_last' = G_knob'
                      /\ B_knob_last' = B_knob'
                /\ pc' # "startup" => j' = j]_vars

\* knob R went from 100 to 107 at frame 42 and the animation ended there
C9_Witness ==
    /\ pc = "blank"
    /\ j = 42
    /\ R_knob_last = 100
    /\ R_knob = 107

\* C10: when the main loop is entered all seven pixels are black, in the
\* buffer and as presented, and the splash image is out of the display
\* group.
C10_BlackAtLoopEntry ==
    pc = "main" =>
        /\ \A i \in 0 .. 6 : neopixels[i] = <<0, 0, 0>> /\ shown[i] = <<0, 0, 0>>
        /\ \A n \in 1 .. Len(splash) : splash[n] # "face"

\* the main loop was entered after the animation ran out of frames
C10_Witness ==
    /\ pc = "main"
    /\ j = 4999
    /\ R_knob = R_knob_last /\ G_knob = G_knob_last /\ B_knob = B_knob_last
    /\ Len(splash) = 9

\* C11: in every rendering tick the pixel writes are followed by exactly one
\* show call: the tick's calls hold one show, and it is the last of them.
C11_OneShowPerTick ==
    pixel_ops # <<>> =>
        /\ Cardinality({n \in 1 .. Len(pixel_ops) : pixel_ops[n].op = "show"}) = 1
        /\ pixel_ops[Len(pixel_ops)].op = "show"

\* all the readings of s are within the mapping window
InWindow(s) == \A i \in 1 .. 8 : s[i] >= 1000 /\ s[i] <= 64000

\* C12: for readings within [1000, 64000] get_knob returns an integer in
\* 0..255; if every reading of one pin is at most the corresponding reading
\* of another the first result is at most the second; eight readings of
\* 32000 give 125.
C12_KnobInRangeMonotone ==
    pc = "sampled" =>
        /\ InWindow(analog_pins[1]) => R_knob \in 0 .. 255
        /\ InWindow(analog_pins[2]) => G_knob \in 0 .. 255
        /\ ( /\ InWindow(analog_pins[1])
             /\ InWindow(analog_pins[2])
             /\ \A i \in 1 .. 8 : analog_pins[1][i] <= analog_pins[2][i] )
           => R_knob <= G_knob
        /\ (\A i \in 1 .. 8 : analog_pins[1][i] = 32000) => R_knob = 125

\* pin R read 32000 eight times and gave 125; pin G read 64000 once and
\* otherwise 32000 and gave more
C12_Witness ==
    /\ pc = "sampled"
    /\ \A i \in 1 .. 8 : analog_pins[1][i] = 32000
    /\ analog_pins[2][1] = 64000
    /\ \A i \in 2 .. 8 : analog_pins[2][i] = 32000
    /\ R_knob = 125
    /\ G_knob = 141

\* C13: for any eight readings in 0..65535 get_knob returns a value in
\* 0..255, so the three channels pack into 24 bits with one byte each.
C13_KnobAlwaysInRange ==
    pc = "sampled" =>
        /\ \A c \in 1 .. 3 : \A i \in 1 .. 8 : analog_pins[c][i] \in 0 .. 65535
        /\ R_knob \in 0 .. 255
        /\ G_knob \in 0 .. 255
        /\ B_knob \in 0 .. 255
        /\ PackRGB(R_knob, G_knob, B_knob) = R_knob * 65536 + G_knob * 256 + B_knob
        /\ PackRGB(R_knob, G_knob, B_knob) \in 0 .. 16777215

\* pin R read 0 and pin G read 65535, both outside the window, and the
\* channels are 0 and 255
C13_Witness ==
    /\ pc = "sampled"
    /\ \A i \in 1 .. 8 : analog_pins[1][i] = 0 /\ analog_pins[2][i] = 65535
    /\ R_knob = 0
    /\ G_knob = 255

\* the digits a text field can show, by value
Digits16 ==
    <<"0", "1", "2", "3", "4", "5", "6", "7", "8", "9", "a", "b", "c", "d", "e", "f">>

\* the number the digits of text spell in the given base
RECURSIVE TextValue(_, _)
TextValue(text, base) ==
    IF text = <<>> THEN 0
    ELSE TextValue(SubSeq(text, 1, Len(text) - 1), base) * base
         + (CHOOSE d \in 0 .. (base - 1) : Digits16[d + 1] = text[Len(text)])

\* C14: every slow tick fills the text fields, and from then on the display
\* and the live pixels carry one triple, the one last sampled: the decimal
\* fields spell R, G and B, the hex field and the big circle's fill carry
\* R*65536 + G*256 + B, and pixels 0, 1 and 4 hold (R, G, B) in the buffer
\* and as presented.
C14_OneTripleOnBothDevices ==
    /\ slow_tick => disp_text.r # <<>>
    /\ disp_text.r # <<>> =>
          /\ TextValue(disp_text.r, 10) = R_knob
          /\ TextValue(disp_text.g, 10) = G_knob
          /\ TextValue(disp_text.b, 10) = B_knob
          /\ Len(disp_text.h) > 2
          /\ disp_text.h[1] = "0"
          /\ disp_text.h[2] = "x"
          /\ TextValue(SubSeq(disp_text.h, 3, Len(disp_text.h)), 16)
                = R_knob * 65536 + G_knob * 256 + B_knob
          /\ big_circle_fill = R_knob * 65536 + G_knob * 256 + B_knob
          /\ \A i \in {0, 1, 4} :
                /\ neopixels[i] = <<R_knob, G_knob, B_knob>>
                /\ shown[i] = <<R_knob, G_knob, B_knob>>

\* a slow tick sampled (255, 0, 0): the fields read 255, 0, 0 and 0xff0000,
\* the big circle is red and so are the live pixels
C14_Witness ==
    /\ slow_tick
    /\ disp_text.r = <<"2", "5", "5">>
    /\ disp_text.g = <<"0">>
    /\ disp_text.h = <<"0", "x", "f", "f", "0", "0", "0", "0">>
    /\ big_circle_fill = 16711680
    /\ shown[4] = <<255, 0, 0>>

\* C15: fastloop_counter is in 0..24 at the start of every iteration and is
\* the number of iterations run modulo 25; an iteration runs the slow
\* bookkeeping exactly when it is the 25th, 50th, ... one, and then resets
\* the counter to 0; every other iteration increments the counter by one.
C15_SlowEvery25th ==
    /\ [](pc = "main" =>
            /\ fastloop_counter \in 0 .. 24
            /\ fastloop_counter = iteration % 25
            /\ slow_tick <=> (iteration > 0 /\ iteration % 25 = 0))
    /\ [][/\ iteration' = iteration + 1
          /\ slow_tick' <=> (fastloop_counter = 24)
          /\ slow_tick' => fastloop_counter' = 0
          /\ ~slow_tick' => fastloop_counter' = fastloop_counter + 1
          /\ ~slow_tick' =>
                /\ <<R_knob', G_knob', B_knob'>> = <<R_knob, G_knob, B_knob>>
                /\ neopixels' = neopixels
                /\ disp_text' = disp_text
                /\ mem_rgb' = mem_rgb
                /\ \A k \in Buttons : consumed'[k] = "none"]_vars

\* the 50th iteration ran the slow bookkeeping for the second time
C15_Witness ==
    /\ pc = "main"
    /\ iteration = 50
    /\ slow_tick
    /\ fastloop_counter = 0
    /\ disp_text.r # <<>>

\* C16: every iteration updates all four debouncers and latches every
\* release it sees, each with the classification of its own press; and a
\* slow tick saves every slot whose latch is long, all with the triple that
\* tick sampled.
C16_NoCoalescing ==
    [][/\ \A k \in Buttons :
             /\ (unstable'[k] = unstable[k] /\ unstable'[k] # debounced[k])
                   => (changed'[k] /\ debounced'[k] = unstable'[k])
             /\ (changed'[k] /\ debounced'[k]) =>
                   (IF slow_tick' THEN consumed'[k] ELSE btn_status'[k])
                      = (IF now' - btn_start_time[k] < 75 THEN "short" ELSE "long")
       /\ slow_tick' =>
             \A k \in Buttons :
                (btn_status[k] = "long" \/ consumed'[k] = "long") =>
                   /\ consumed'[k] = "long" \/ (changed'[k] /\ debounced'[k])
                   /\ consumed'[k] = "long" =>
                         /\ mem_rgb'[k] = <<R_knob', G_knob', B_knob'>>
                         /\ neopixels'[SlotPixel[k]] = <<R_knob', G_knob', B_knob'>>
                         /\ circle_mem_fill'[k] = big_circle_fill']_vars

\* the iteration that ran the slow bookkeeping saw two buttons released,
\* both after a long press, and both slots were saved with the same triple
C16_Witness ==
    \E k \in Buttons : \E q \in Buttons :
        /\ k # q
        /\ slow_tick
        /\ changed[k] /\ debounced[k] /\ changed[q] /\ debounced[q]
        /\ consumed[k] = "long" /\ consumed[q] = "long"
        /\ mem_rgb[k] = <<125, 125, 125>>
        /\ mem_rgb[q] = <<125, 125, 125>>
        /\ btn_start_time[k] # btn_start_time[q]

\* C17: a latch that holds a classification is reset to waiting by the next
\* slow tick and by nothing else, at most 25 iterations after it was set;
\* after every slow tick all four latches are waiting.
C17_LatchResetWithin25 ==
    /\ [](\A k \in Buttons :
             /\ slow_tick => btn_status[k] = "waiting"
             /\ latch_age[k] <= 25
             /\ btn_status[k] # "waiting" => latch_age[k] < 25)
    /\ [][\A k \in Buttons :
             /\ btn_status[k] # "waiting" =>
                   (btn_status'[k] = "waiting" <=> slow_tick')
             /\ consumed'[k] # "none" =>
                   (slow_tick' /\ btn_status'[k] = "waiting")]_vars

\* a long classification waited 24 iterations in the latch and the slow
\* tick then consumed it
C17_Witness ==
    \E k \in Buttons :
        /\ slow_tick
        /\ consumed[k] = "long"
        /\ latch_age[k] = 24
        /\ btn_status[k] = "waiting"
        /\ mem_rgb[k] # <<0, 0, 0>>

\* the pixel that echoes slot k, as the claim gives it
EchoPixel(k) == IF k = 1 THEN 6 ELSE IF k = 2 THEN 5 ELSE IF k = 3 THEN 2 ELSE 3

\* C18: at every boundary between iterations of the main loop pixels 6, 5, 2
\* and 3 hold in the buffer the values stored in slots 1, 2, 3 and 4; the
\* buffer changes in a slow tick only; its live rendering writes pixels 0, 1
\* and 4 and no other, and its saves write the pixels of the slots saved and
\* no other.
C18_PixelPartition ==
    /\ [](pc = "main" => \A k \in 1 .. 4 : neopixels[EchoPixel(k)] = mem_rgb[k])
    /\ [][/\ \A i \in 0 .. 6 :
                neopixels'[i] # neopixels[i] =>
                   /\ slow_tick'
                   /\ \/ i \in {0, 1, 4}
                      \/ \E k \in 1 .. 4 : EchoPixel(k) = i /\ consumed'[k] = "long"
          /\ slow_tick' =>
                /\ Len(pixel_ops') >= 4
                /\ {pixel_ops'[n].i : n \in 1 .. 3} = {0, 1, 4}
                /\ \A n \in 1 .. 3 : pixel_ops'[n].op = "write"
                /\ pixel_ops'[4].op = "show"
                /\ \A n \in 5 .. Len(pixel_ops') :
                      /\ pixel_ops'[n].op = "write"
                      /\ \E k \in 1 .. 4 :
                            EchoPixel(k) = pixel_ops'[n].i /\ consumed'[k] = "long"
                /\ \A i \in {0, 1, 4} :
                      neopixels'[i] = <<R_knob', G_knob', B_knob'>>]_vars

\* slot 1 holds red and slot 2 grey, pixels 6 and 5 echo them, pixel 2 is
\* still black and the live pixels show grey
C18_Witness ==
    /\ pc = "main"
    /\ slow_tick
    /\ mem_rgb[1] = <<255, 0, 0>> /\ neopixels[6] = <<255, 0, 0>>
    /\ mem_rgb[2] = <<125, 125, 125>> /\ neopixels[5] = <<125, 125, 125>>
    /\ mem_rgb[3] = <<0, 0, 0>> /\ neopixels[2] = <<0, 0, 0>>
    /\ neopixels[0] = <<125, 125, 125>>
    /\ neopixels[4] = <<125, 125, 125>>

\* C19: while button k is down its latch is not set and slot k is saved only
\* from a latch an earlier release had set; the latch takes a classification
\* only in an iteration that sees the release; and a long press is saved by
\* the first slow tick at or after the release, with the triple that tick
\* samples.
C19_EffectOnRelease ==
    [][\A k \in Buttons :
          /\ ~debounced'[k] =>
                /\ btn_status'[k] \in {btn_status[k], "waiting"}
                /\ consumed'[k] \in {"none", btn_status[k]}
                /\ mem_rgb'[k] # mem_rgb[k] => btn_status[k] = "long"
          /\ (changed'[k] /\ ~debounced'[k]) => btn_start_time'[k] = now'
          /\ ( \/ btn_status'[k] \notin {"waiting", btn_status[k]}
               \/ consumed'[k] \notin {"none", btn_status[k]} )
                => (changed'[k] /\ debounced'[k])
          /\ consumed'[k] = "long" =>
                /\ slow_tick'
                /\ latch_age'[k] < 25
                /\ mem_rgb'[k] = <<R_knob', G_knob', B_knob'>>]_vars

\* a button held since before the loop stayed down across the first slow
\* tick, which sampled red and saved nothing; it was released while the
\* knobs read red, and the second slow tick sampled grey and saved grey
C19_Witness ==
    \E k \in Buttons :
        /\ slow_tick
        /\ iteration = 50
        /\ btn_start_time[k] = 0
        /\ consumed[k] = "long"
        /\ prior_rgb = <<255, 0, 0>>
        /\ mem_rgb[k] = <<125, 125, 125>>
        /\ circle_mem_fill[k] = 8224125

====
